---- MODULE Spec2Model ----
(***************************************************************************)
(* Model of run_myco.py: the MycoRunner supervisor.  One sequential        *)
(* program (main -> MycoRunner.run -> start_server2 / start_server1 /      *)
(* run_client -> cleanup) with one asynchronous channel, the SIGINT /      *)
(* SIGTERM handler, which Python runs between two bytecodes of the main    *)
(* program or when a blocking system call is interrupted.                  *)
(*                                                                         *)
(* pc  is the position of the main program, hpc the position of the        *)
(* innermost running signal handler ("none" when no handler runs).  A      *)
(* handler always ends in sys.exit(0), i.e. it raises SystemExit, so the   *)
(* code it interrupted never resumes: an interrupted handler frame is      *)
(* discarded, and of the main program only the finally clause of run()     *)
(* can still execute.                                                      *)
(*                                                                         *)
(* Time is counted in polling intervals (time.sleep(0.1), line 189) since  *)
(* start_time (line 166); the 30 s and 60 s windows are scaled down.       *)
(*                                                                         *)
(* Spec follows a whole run; in it the host is abstract: what the probes   *)
(* of cleanup_ports find and whether lsof and pkill work are inputs of     *)
(* each call.  PortSpec follows the preflight of run() alone, on a host    *)
(* whose commands and left-over processes are fixed at the start, one      *)
(* probe at a time.                                                        *)
(***************************************************************************)
EXTENDS Integers, Sequences, FiniteSets, TLC

\* ---- bounds of the model ------------------------------------------------
MaxSignals == 2        \* signals delivered in one run
MaxLines == 3          \* lines a dependency prints before its start is over
TimeoutServer2 == 2    \* readiness window of Server2, in polling intervals
TimeoutServer1 == 3    \* readiness window of Server1 (longer, line 238)

\* ---- names --------------------------------------------------------------
Servers == {"Server2", "Server1"}
Roles == Servers \cup {"Client"}
Ctxs == {"main", "handler"}
Lines == {"marker", "other"}

\* return codes a client can exit with; KilledRc is Popen's code for SIGKILL
ClientRcs == {0, 2}
NoRc == -1
KilledRc == -9

VARIABLES
  pc,            \* position of the main program
  hpc,           \* position of the running signal handler, or "none"
  ci,            \* index of cleanup's for loop over self.processes
  cur,           \* the server whose start_serverN is executing
  processes,     \* self.processes: sequence of tracked roles
  status,        \* [role -> "none" | "alive" | "dead"]: the child process
  out,           \* [server -> lines the child wrote to its stdout pipe]
  rd,            \* [server -> number of those lines readline() consumed]
  elapsed,       \* time.time() - start_time, in polling intervals
  waitResult,    \* [server -> "none" | "Ready" | "TimedOut" | "ProcessExited"]
  startOk,       \* [server -> "none" | "ok" | "failed"]: start_serverN's value
  markerOnTime,  \* [server -> the child printed its marker inside its window]
  clientRc,      \* client_process.returncode, NoRc while unknown
  retval,        \* what run() is returning: "none","True","False","SystemExit"
  exitCode,      \* exit status of the supervisor, NoRc while it runs
  termSent,      \* roles the running cleanup pass sent SIGTERM (terminate())
  killSent,      \* roles the running cleanup pass sent SIGKILL (kill())
  signalled,     \* roles any cleanup pass or sweep has sent a signal so far
  waits,         \* process.wait() calls in the running iteration of cleanup's loop
  passes,        \* number of cleanup() calls started
  passesDone,    \* number of cleanup() calls that ran to their last line
  sigCount,      \* signals delivered so far
  foreign,       \* a process outside the run holds a managed port
  tool,          \* [tool -> "ok" | "fails" | "missing"]: the host's commands
  hostProcs,     \* processes of the host that a probe can find, still alive
  fpc,           \* position inside cleanup_ports / check_ports_free, or "idle"
  pi,            \* index of the for loop over ports (lines 33, 111)
  probed,        \* [port -> methods the running cleanup_ports call has tried]
  swept,         \* patterns the running cleanup_ports call has searched for
  killedAny,     \* killed_any, line 31
  raisedIn       \* function an exception escaped from, or "none"

vars == <<pc, hpc, ci, cur, processes, status, out, rd, elapsed, waitResult,
          startOk, markerOnTime, clientRc, retval, exitCode, termSent,
          killSent, signalled, waits, passes, passesDone, sigCount, foreign,
          tool, hostProcs, fpc, pi, probed, swept, killedAny, raisedIn>>

\* groups of variables, for UNCHANGED
waitVars == <<cur, rd, elapsed, waitResult, startOk>>
sigVars == <<termSent, killSent, waits, passes, passesDone>>
childVars == <<status, out, markerOnTime, clientRc, signalled>>
\* the probes of one preflight, followed one by one in PortSpec only
probeVars == <<tool, hostProcs, fpc, pi, probed, swept, killedAny, raisedIn>>
hostVars == <<foreign, probeVars>>
\* everything of the supervisor that the preflight leaves alone
restVars == <<ci, processes, sigCount, waitVars, sigVars, childVars>>

\* ---- helpers ------------------------------------------------------------
Timeout(r) == IF r = "Server2" THEN TimeoutServer2 ELSE TimeoutServer1

WaitLocs == {"w_top", "w_read", "w_sleep"}
\* positions of run() inside its try block (lines 305-319)
TryBody == {"s_popen", "s_append", "c_popen", "c_wait"} \cup WaitLocs
PreLocs == {"pre_cleanup1", "pre_check1", "pre_pkill", "pre_cleanup2",
            "pre_check2"}
CleanupLocs == {"cl_begin", "cl_loop", "cl_wait1", "cl_wait2", "cl_ports",
                "cl_pkill", "cl_end"}

Running == pc # "exited"
Active(ctx) == Running /\ IF ctx = "handler" THEN hpc # "none" ELSE hpc = "none"
Loc(ctx) == IF ctx = "handler" THEN hpc ELSE pc
At(ctx, l) == Active(ctx) /\ Loc(ctx) = l
Goto(ctx, l) == IF ctx = "handler" THEN hpc' = l /\ pc' = pc
                                   ELSE pc' = l /\ hpc' = hpc
Main(l) == At("main", l)

AliveRoles == {r \in Roles : status[r] = "alive"}
Tracked == {processes[i] : i \in 1..Len(processes)}

\* ports = [3002, 3004], lines 30 and 110
Ports == <<3002, 3004>>
PortSet == {Ports[i] : i \in 1..Len(Ports)}
\* the commands cleanup_ports, check_ports_free and run() execute
Tools == {"lsof", "netstat", "pgrep", "kill", "pkill"}
\* "ok": runs and exits 0; "fails": runs and exits nonzero with no output;
\* "missing": subprocess.run raises FileNotFoundError, an OSError
ToolStates == {"ok", "fails", "missing"}
\* the patterns of the two pgrep sweeps, lines 80 and 93
Patterns == <<"rpc_server", "cargo run.*rpc_server">>
\* processes a host can have left over: a server of an earlier run that still
\* listens on the first port, an unrelated program on the second port, and a
\* "cargo run ... rpc_server" wrapper that holds no port
HostProcs == {"stale_server", "other_listener", "cargo_wrapper"}

\* state of the supervisor object after __init__ (lines 23-26)
SupervisorInit ==
  /\ hpc = "none"
  /\ ci = 1
  /\ cur = "Server2"
  /\ processes = <<>>
  /\ status = [r \in Roles |-> "none"]
  /\ out = [r \in Servers |-> <<>>]
  /\ rd = [r \in Servers |-> 0]
  /\ elapsed = 0
  /\ waitResult = [r \in Servers |-> "none"]
  /\ startOk = [r \in Servers |-> "none"]
  /\ markerOnTime = [r \in Servers |-> FALSE]
  /\ clientRc = NoRc
  /\ retval = "none"
  /\ exitCode = NoRc
  /\ termSent = {}
  /\ killSent = {}
  /\ signalled = {}
  /\ waits = 0
  /\ passes = 0
  /\ passesDone = 0
  /\ sigCount = 0

\* no preflight probe is being followed
ProbesIdle ==
  /\ tool = [t \in Tools |-> "ok"]
  /\ hostProcs = {}
  /\ fpc = "idle"
  /\ pi = 0
  /\ probed = [p \in PortSet |-> {}]
  /\ swept = {}
  /\ killedAny = FALSE
  /\ raisedIn = "none"

Init ==
  /\ pc = "m_justfile"
  /\ SupervisorInit
  /\ foreign \in BOOLEAN
  /\ ProbesIdle

\* ---- main(): lines 330-353 ----------------------------------------------
ExitCodeOf(rv) == IF rv = "True" THEN 0 ELSE 1
HandlerExitCode == 0

Exit(code) ==
  /\ pc' = "exited"
  /\ hpc' = "none"
  /\ exitCode' = code

\* os.path.exists("justfile")
MainCheckJustfile ==
  /\ Main("m_justfile")
  /\ \E exists \in BOOLEAN :
       IF exists THEN pc' = "m_just" /\ UNCHANGED <<hpc, exitCode>>
                 ELSE Exit(1)
  /\ UNCHANGED <<ci, processes, retval, sigCount>>
  /\ UNCHANGED <<waitVars, sigVars, childVars, hostVars>>

\* subprocess.run(["just", "--version"], check=True)
MainCheckJust ==
  /\ Main("m_just")
  /\ \E ok \in BOOLEAN :
       IF ok THEN pc' = "run_install" /\ UNCHANGED <<hpc, exitCode>>
             ELSE Exit(1)
  /\ UNCHANGED <<ci, processes, retval, sigCount>>
  /\ UNCHANGED <<waitVars, sigVars, childVars, hostVars>>

\* sys.exit(0) / sys.exit(1) after runner.run() returned
MainExit ==
  /\ Main("m_exit")
  /\ Exit(ExitCodeOf(retval))
  /\ UNCHANGED <<ci, processes, retval, sigCount>>
  /\ UNCHANGED <<waitVars, sigVars, childVars, hostVars>>

\* ---- port reclamation: lines 28-124 -------------------------------------
\* cleanup_ports(): every kill is by process id, found by lsof, netstat or
\* pgrep; which live processes the probes find depends on the host, so the
\* set K of children hit and the fate of a foreign port holder are chosen
\* nondeterministically.  kill -9 and the sleep(2) that follows leave the
\* processes hit dead.
cleanup_ports ==
  \E K \in SUBSET AliveRoles, f \in (IF foreign THEN BOOLEAN ELSE {FALSE}) :
    /\ signalled' = signalled \cup K
    /\ status' = [r \in Roles |-> IF r \in K THEN "dead" ELSE status[r]]
    /\ clientRc' = IF "Client" \in K THEN KilledRc ELSE clientRc
    /\ foreign' = f

\* check_ports_free(): False only when lsof runs (lsofOk) and lists a holder
check_ports_free(lsofOk) == ~(lsofOk /\ foreign)

\* ---- the probes one by one: lines 28-124 and 290-303 ---------------------
\* PortSpec follows one preflight of run() on a host whose commands and
\* left-over processes are fixed at the start: cleanup_ports probe by probe,
\* check_ports_free port by port.
ListensOn(h) == IF h = "stale_server" THEN {Ports[1]}
                ELSE IF h = "other_listener" THEN {Ports[2]}
                ELSE {}
CmdlineMatches(h) == IF h = "stale_server" THEN {Patterns[1]}
                     ELSE IF h = "cargo_wrapper" THEN {Patterns[1], Patterns[2]}
                     ELSE {}
Listeners(port) == {h \in hostProcs : port \in ListensOn(h)}
Matching(pattern) == {h \in hostProcs : pattern \in CmdlineMatches(h)}
PortHeld(H) == \E h \in H : ListensOn(h) # {}

\* result.returncode == 0 and result.stdout.strip(): what a command that was
\* run reports of the set S it would list
Output_IgnoresReturncode(t, S) == S
Output(t, S) == IF tool[t] = "ok" THEN S ELSE {}

\* except (OSError, subprocess.SubprocessError): lines 71, 74, 88, 101, 122
Caught_Nothing(exc) == FALSE
Caught(exc) == exc \in {"OSError", "SubprocessError"}

\* One discovery command t that would list the processes F, and the kill -9
\* of every pid it printed (lines 36-49, 53-70, 80-87, 93-100): the exception
\* raised, the processes that die, and whether killed_any was set.  A missing
\* kill raises at the first pid, before killed_any = True.
ProbeOutcome(t, F) ==
  IF tool[t] = "missing"
    THEN [exc |-> "OSError", dead |-> {}, any |-> FALSE]
  ELSE IF Output(t, F) = {}
    THEN [exc |-> "none", dead |-> {}, any |-> FALSE]
  ELSE IF tool["kill"] = "missing"
    THEN [exc |-> "OSError", dead |-> {}, any |-> FALSE]
  ELSE [exc |-> "none",
        dead |-> IF tool["kill"] = "ok" THEN Output(t, F) ELSE {},
        any |-> TRUE]

\* where control goes after a probe: on, to the except clause that encloses
\* it, or out of the function
Resume(o, normal, handler) ==
  IF o.exc = "none" THEN normal
  ELSE IF Caught(o.exc) THEN handler
  ELSE "raise"

InPorts == pc \in {"pre_cleanup1", "pre_cleanup2"}
InCheck == pc \in {"pre_check1", "pre_check2"}

\* an exception nothing catches ends the program with status 1
Escapes(fn) ==
  /\ raisedIn' = fn
  /\ fpc' = "idle"
  /\ pi' = 0
  /\ Exit(1)

\* effect of one probe of cleanup_ports and the move to its successor
PortsStep(o, target) ==
  /\ hostProcs' = hostProcs \ o.dead
  /\ foreign' = PortHeld(hostProcs')
  /\ killedAny' = (killedAny \/ o.any)
  /\ IF target = "raise" THEN Escapes("cleanup_ports")
     ELSE /\ UNCHANGED <<pc, hpc, exitCode, raisedIn>>
          /\ IF target # "next_port" THEN fpc' = target /\ pi' = pi
             ELSE IF pi < Len(Ports) THEN fpc' = "lsof" /\ pi' = pi + 1
             ELSE fpc' = "pgrep_rpc" /\ pi' = 0
  /\ UNCHANGED <<tool, retval, restVars>>

\* ports = [3002, 3004]; killed_any = False: lines 30-31
PortsEnter ==
  /\ Running /\ hpc = "none" /\ InPorts /\ fpc = "idle"
  /\ fpc' = "lsof"
  /\ pi' = 1
  /\ probed' = [p \in PortSet |-> {}]
  /\ swept' = {}
  /\ killedAny' = FALSE
  /\ UNCHANGED <<pc, hpc, exitCode, retval, foreign, tool, hostProcs, raisedIn>>
  /\ UNCHANGED restVars

\* Method 1, lines 36-49: an exception leaves the outer try (line 74) and
\* with it the netstat pass of this port
ProbeLsof ==
  /\ Running /\ hpc = "none" /\ InPorts /\ fpc = "lsof"
  /\ LET port == Ports[pi]
         o == ProbeOutcome("lsof", Listeners(port))
     IN /\ probed' = [probed EXCEPT ![port] = @ \cup {"lsof"}]
        /\ PortsStep(o, Resume(o, "netstat", "next_port"))
  /\ UNCHANGED swept

\* Method 2, lines 52-72, in its own try inside the outer one
ProbeNetstat ==
  /\ Running /\ hpc = "none" /\ InPorts /\ fpc = "netstat"
  /\ LET port == Ports[pi]
         o == ProbeOutcome("netstat", Listeners(port))
     IN /\ probed' = [probed EXCEPT ![port] = @ \cup {"netstat"}]
        /\ PortsStep(o, Resume(o, "next_port", "next_port"))
  /\ UNCHANGED swept

\* Method 3, lines 79-89
SweepRpc ==
  /\ Running /\ hpc = "none" /\ InPorts /\ fpc = "pgrep_rpc"
  /\ LET o == ProbeOutcome("pgrep", Matching(Patterns[1]))
     IN PortsStep(o, Resume(o, "pgrep_cargo", "pgrep_cargo"))
  /\ swept' = swept \cup {Patterns[1]}
  /\ UNCHANGED probed

\* Method 4, lines 92-102
SweepCargo ==
  /\ Running /\ hpc = "none" /\ InPorts /\ fpc = "pgrep_cargo"
  /\ LET o == ProbeOutcome("pgrep", Matching(Patterns[2]))
     IN PortsStep(o, Resume(o, "sleep", "sleep"))
  /\ swept' = swept \cup {Patterns[2]}
  /\ UNCHANGED probed

\* if killed_any: time.sleep(2), lines 104-106, and the return to run()
PortsReturn ==
  /\ Running /\ hpc = "none" /\ InPorts /\ fpc = "sleep"
  /\ pc' = IF pc = "pre_cleanup1" THEN "pre_check1" ELSE "pre_check2"
  /\ fpc' = "idle"
  /\ killedAny' = FALSE
  /\ UNCHANGED <<hpc, exitCode, retval, foreign, tool, hostProcs, pi, probed,
                 swept, raisedIn>>
  /\ UNCHANGED restVars

\* the lsof query of check_ports_free lists an owner of the port (line 119)
ShowsOwner_FirstPortOnly(port) ==
  port = Ports[1] /\ Output("lsof", Listeners(port)) # {}
ShowsOwner(port) == Output("lsof", Listeners(port)) # {}

\* ports = [3002, 3004], line 110
CheckEnter ==
  /\ Running /\ hpc = "none" /\ InCheck /\ fpc = "idle"
  /\ fpc' = "check"
  /\ pi' = 1
  /\ UNCHANGED <<pc, hpc, exitCode, retval, foreign, tool, hostProcs, probed,
                 swept, killedAny, raisedIn>>
  /\ UNCHANGED restVars

\* one iteration of the loop of check_ports_free, lines 111-124, and what
\* run() does with the value returned (lines 293, 301-303)
CheckPort ==
  /\ Running /\ hpc = "none" /\ InCheck /\ fpc = "check"
  /\ LET port == Ports[pi]
         exc == IF tool["lsof"] = "missing" THEN "OSError" ELSE "none"
     IN IF exc # "none" /\ ~Caught(exc)
          THEN Escapes("check_ports_free") /\ UNCHANGED retval
        ELSE IF exc = "none" /\ ShowsOwner(port)
          THEN /\ pc' = IF pc = "pre_check1" THEN "pre_pkill" ELSE "m_exit"
               /\ retval' = IF pc = "pre_check1" THEN retval ELSE "False"
               /\ fpc' = "idle"
               /\ pi' = 0
               /\ UNCHANGED <<hpc, exitCode, raisedIn>>
        ELSE IF pi < Len(Ports)
          THEN /\ pi' = pi + 1
               /\ UNCHANGED <<pc, hpc, exitCode, retval, fpc, raisedIn>>
        ELSE /\ pc' = "s_popen"
             /\ fpc' = "idle"
             /\ pi' = 0
             /\ UNCHANGED <<hpc, exitCode, retval, raisedIn>>
  /\ UNCHANGED <<foreign, tool, hostProcs, probed, swept, killedAny>>
  /\ UNCHANGED restVars

\* pkill -9 -f rpc_server; pkill -9 -f cargo.*rpc_server: lines 296-298,
\* outside any try
PortPkill ==
  /\ Main("pre_pkill")
  /\ IF tool["pkill"] = "missing"
       THEN Escapes("run") /\ UNCHANGED <<hostProcs, foreign>>
       ELSE /\ hostProcs' = hostProcs \
                 Output("pkill", Matching(Patterns[1]) \cup Matching(Patterns[2]))
            /\ foreign' = PortHeld(hostProcs')
            /\ pc' = "pre_cleanup2"
            /\ UNCHANGED <<hpc, exitCode, fpc, pi, raisedIn>>
  /\ UNCHANGED <<retval, tool, probed, swept, killedAny>>
  /\ UNCHANGED restVars

\* run() has installed its handlers and reaches line 290 on some host
PortInit ==
  /\ pc = "pre_cleanup1"
  /\ SupervisorInit
  /\ tool \in [Tools -> ToolStates]
  /\ hostProcs \in SUBSET HostProcs
  /\ foreign = PortHeld(hostProcs)
  /\ fpc = "idle"
  /\ pi = 0
  /\ probed = [p \in PortSet |-> {}]
  /\ swept = {}
  /\ killedAny = FALSE
  /\ raisedIn = "none"

PortNext ==
  \/ PortsEnter
  \/ ProbeLsof
  \/ ProbeNetstat
  \/ SweepRpc
  \/ SweepCargo
  \/ PortsReturn
  \/ CheckEnter
  \/ CheckPort
  \/ PortPkill

PortSpec == PortInit /\ [][PortNext]_vars

\* ---- run(): preflight, lines 284-303 ------------------------------------
\* signal.signal(SIGINT, ...); signal.signal(SIGTERM, ...)
RunInstallHandlers ==
  /\ Main("run_install")
  /\ pc' = "pre_cleanup1"
  /\ UNCHANGED <<hpc, exitCode, ci, processes, retval, sigCount>>
  /\ UNCHANGED <<waitVars, sigVars, childVars, hostVars>>

\* self.cleanup_ports() at line 290 and at line 299
PreCleanupPorts ==
  /\ \/ Main("pre_cleanup1") /\ pc' = "pre_check1"
     \/ Main("pre_cleanup2") /\ pc' = "pre_check2"
  /\ cleanup_ports
  /\ UNCHANGED <<hpc, exitCode, ci, processes, retval, sigCount>>
  /\ UNCHANGED <<waitVars, sigVars, out, markerOnTime, probeVars>>

\* if not self.check_ports_free(): line 293
PreCheck1 ==
  /\ Main("pre_check1")
  /\ \E lsofOk \in BOOLEAN :
       pc' = IF check_ports_free(lsofOk) THEN "s_popen" ELSE "pre_pkill"
  /\ UNCHANGED <<hpc, exitCode, ci, processes, retval, sigCount>>
  /\ UNCHANGED <<waitVars, sigVars, childVars, hostVars>>

\* the two pkill -9 of lines 296-297, outside any try: a host without pkill
\* makes subprocess.run raise FileNotFoundError, which nothing catches
PrePkill ==
  /\ Main("pre_pkill")
  /\ \E pkillOk \in BOOLEAN :
       IF pkillOk THEN pc' = "pre_cleanup2" /\ UNCHANGED <<hpc, exitCode>>
                  ELSE Exit(1)
  /\ UNCHANGED <<ci, processes, retval, sigCount>>
  /\ UNCHANGED <<waitVars, sigVars, childVars, hostVars>>

\* (variant: a failed re-check escalates again)
PreCheck2_Retries ==
  /\ Main("pre_check2")
  /\ \E lsofOk \in BOOLEAN :
       IF check_ports_free(lsofOk)
         THEN pc' = "s_popen" /\ retval' = retval
         ELSE pc' = "pre_pkill" /\ retval' = retval
  /\ UNCHANGED <<hpc, exitCode, ci, processes, sigCount>>
  /\ UNCHANGED <<waitVars, sigVars, childVars, hostVars>>

\* if not self.check_ports_free(): return False, line 301
PreCheck2 ==
  /\ Main("pre_check2")
  /\ \E lsofOk \in BOOLEAN :
       IF check_ports_free(lsofOk)
         THEN pc' = "s_popen" /\ retval' = retval
         ELSE pc' = "m_exit" /\ retval' = "False"
  /\ UNCHANGED <<hpc, exitCode, ci, processes, sigCount>>
  /\ UNCHANGED <<waitVars, sigVars, childVars, hostVars>>

\* ---- start_server2 / start_server1: lines 194-243 -----------------------
\* Where run() goes once start_serverN has returned ok (lines 307-317);
\* "cl_begin" is the finally clause, reached by return False.
AfterStart_IgnoresResult(r, ok) ==
  IF r = "Server2" THEN "s_popen" ELSE "c_popen"

AfterStart(r, ok) ==
  IF ~ok THEN "cl_begin" ELSE IF r = "Server2" THEN "s_popen" ELSE "c_popen"

\* (variant: run() tries a failed start again)
StartReturns_Retries(r, ok) ==
  /\ startOk' = [startOk EXCEPT ![r] = IF ok THEN "ok" ELSE "failed"]
  /\ pc' = IF ok THEN AfterStart(r, ok) ELSE "s_popen"
  /\ cur' = IF ok /\ AfterStart(r, ok) = "s_popen" THEN "Server1" ELSE cur
  /\ retval' = retval

\* start_serverN returns ok to run()
StartReturns(r, ok) ==
  /\ startOk' = [startOk EXCEPT ![r] = IF ok THEN "ok" ELSE "failed"]
  /\ pc' = AfterStart(r, ok)
  /\ cur' = IF AfterStart(r, ok) = "s_popen" THEN "Server1" ELSE cur
  /\ retval' = IF ok THEN retval ELSE "False"

\* subprocess.Popen(cmd, ...): the child runs, or OSError is caught and
\* start_serverN returns False (lines 215-217, 241-243)
StartPopen ==
  /\ Main("s_popen")
  /\ \E launched \in BOOLEAN :
       IF launched
         THEN /\ status' = [status EXCEPT ![cur] = "alive"]
              /\ pc' = "s_append"
              /\ UNCHANGED <<startOk, cur, retval>>
         ELSE /\ StartReturns(cur, FALSE)
              /\ UNCHANGED status
  /\ UNCHANGED <<hpc, exitCode, ci, processes, sigCount>>
  /\ UNCHANGED <<rd, elapsed, waitResult, sigVars, hostVars>>
  /\ UNCHANGED <<out, markerOnTime, clientRc, signalled>>

\* self.processes.append(self.serverN_process)
Register_Forgets(procs, r) == procs

Register(procs, r) == Append(procs, r)

\* self.serverN_process = <the Popen>; self.processes.append(...);
\* then wait_for_server_ready takes start_time (line 166)
StartAppend ==
  /\ Main("s_append")
  /\ processes' = Register(processes, cur)
  /\ elapsed' = 0
  /\ pc' = "w_top"
  /\ UNCHANGED <<hpc, exitCode, ci, retval, sigCount>>
  /\ UNCHANGED <<cur, rd, waitResult, startOk, sigVars, childVars, hostVars>>

\* ---- wait_for_server_ready: lines 162-192 -------------------------------
\* while time.time() - start_time < timeout
LoopContinues(e, timeout) == e < timeout

\* wait_for_server_ready returns with outcome res; its locals are gone and
\* the pipe is never read again, so both are dropped from the state
WaitReturns(res) ==
  /\ waitResult' = [waitResult EXCEPT ![cur] = res]
  /\ StartReturns(cur, res = "Ready")
  /\ elapsed' = 0
  /\ rd' = [rd EXCEPT ![cur] = 0]
  /\ out' = [out EXCEPT ![cur] = <<>>]

\* the loop test (line 169), then process.poll() (line 170)
WaitTop ==
  /\ Main("w_top")
  /\ IF ~LoopContinues(elapsed, Timeout(cur)) THEN WaitReturns("TimedOut")
     ELSE IF status[cur] = "dead" THEN WaitReturns("ProcessExited")
     ELSE /\ pc' = "w_read"
          /\ UNCHANGED <<waitResult, startOk, cur, retval, rd, elapsed, out>>
  /\ UNCHANGED <<hpc, exitCode, ci, processes, sigCount>>
  /\ UNCHANGED <<sigVars, hostVars, status, markerOnTime, clientRc, signalled>>

\* a line of the pipe is unread
LineAvailable(r) == rd[r] < Len(out[r])
\* process.stdout.readline() on the pipe (bufsize=0) has nothing to return:
\* no unread line, and the write end is still open
ReadBlocks(r) == ~LineAvailable(r) /\ status[r] = "alive"

\* line = process.stdout.readline(), lines 177-185: it returns the next line,
\* or b"" at end of file, and otherwise does not return
WaitRead ==
  /\ Main("w_read")
  /\ ~ReadBlocks(cur)
  /\ IF LineAvailable(cur)
       THEN IF out[cur][rd[cur] + 1] = "marker"
              THEN WaitReturns("Ready")
              ELSE /\ rd' = [rd EXCEPT ![cur] = @ + 1]
                   /\ pc' = "w_sleep"
                   /\ UNCHANGED <<waitResult, startOk, cur, retval, elapsed,
                                  out>>
       ELSE /\ pc' = "w_sleep"
            /\ UNCHANGED <<rd, waitResult, startOk, cur, retval, elapsed, out>>
  /\ UNCHANGED <<hpc, exitCode, ci, processes, sigCount>>
  /\ UNCHANGED <<sigVars, hostVars, status, markerOnTime, clientRc, signalled>>

\* time.sleep(0.1), line 189
WaitSleep ==
  /\ Main("w_sleep")
  /\ elapsed' = elapsed + 1
  /\ pc' = "w_top"
  /\ UNCHANGED <<hpc, exitCode, ci, processes, retval, sigCount>>
  /\ UNCHANGED <<cur, rd, waitResult, startOk, sigVars, childVars, hostVars>>

\* time passes while readline() does not return
Tick ==
  /\ Main("w_read")
  /\ ReadBlocks(cur)
  /\ elapsed < Timeout(cur)
  /\ elapsed' = elapsed + 1
  /\ UNCHANGED <<pc, hpc, exitCode, ci, processes, retval, sigCount>>
  /\ UNCHANGED <<cur, rd, waitResult, startOk, sigVars, childVars, hostVars>>

\* ---- run_client: lines 245-277 ------------------------------------------
\* if client_process.returncode == 0
ClientSuccess_Always(rc) == TRUE

ClientSuccess(rc) == rc = 0

\* subprocess.Popen(cmd, ...) of the client; OSError makes run_client
\* return False.  The handle stays in a local variable.
ClientPopen ==
  /\ Main("c_popen")
  /\ \E launched \in BOOLEAN :
       IF launched
         THEN /\ status' = [status EXCEPT !["Client"] = "alive"]
              /\ pc' = "c_wait"
              /\ UNCHANGED retval
         ELSE /\ pc' = "cl_begin"
              /\ retval' = "False"
              /\ UNCHANGED status
  /\ UNCHANGED <<hpc, exitCode, ci, processes, sigCount>>
  /\ UNCHANGED <<waitVars, sigVars, hostVars>>
  /\ UNCHANGED <<out, markerOnTime, clientRc, signalled>>

\* for line in client_process.stdout: ...; client_process.wait(): both
\* return once the client has exited; run() returns run_client's value
ClientWait ==
  /\ Main("c_wait")
  /\ status["Client"] = "dead"
  /\ retval' = IF ClientSuccess(clientRc) THEN "True" ELSE "False"
  /\ pc' = "cl_begin"
  /\ UNCHANGED <<hpc, exitCode, ci, processes, sigCount>>
  /\ UNCHANGED <<waitVars, sigVars, childVars, hostVars>>

\* ---- cleanup: lines 126-154 ---------------------------------------------
\* cleanup() runs in the finally clause of run() (ctx = "main") and in
\* signal_handler (ctx = "handler").
\* if process.poll() is None
StillRunning_NoPoll(st) == TRUE

StillRunning(st) == st = "alive"

\* print("Cleaning up processes..."), and the for loop starts
CleanupBegin(ctx) ==
  /\ At(ctx, "cl_begin")
  /\ Goto(ctx, "cl_loop")
  /\ ci' = 1
  /\ passes' = passes + 1
  /\ waits' = 0
  /\ termSent' = {}
  /\ killSent' = {}
  /\ UNCHANGED <<exitCode, processes, retval, sigCount, passesDone>>
  /\ UNCHANGED <<waitVars, childVars, hostVars>>

\* (variant: a process found terminated is taken off self.processes)
CleanupLoop_Removes(ctx) ==
  /\ At(ctx, "cl_loop")
  /\ IF ci > Len(processes)
       THEN /\ Goto(ctx, "cl_ports")
            /\ UNCHANGED <<ci, processes, termSent, signalled>>
       ELSE LET p == processes[ci] IN
            IF StillRunning(status[p])
              THEN /\ termSent' = termSent \cup {p}
                   /\ signalled' = signalled \cup {p}
                   /\ Goto(ctx, "cl_wait1")
                   /\ UNCHANGED <<ci, processes>>
              ELSE /\ processes' = SubSeq(processes, 1, ci - 1) \o
                                   SubSeq(processes, ci + 1, Len(processes))
                   /\ Goto(ctx, "cl_loop")
                   /\ UNCHANGED <<ci, termSent, signalled>>
  /\ waits' = 0
  /\ UNCHANGED <<exitCode, retval, sigCount>>
  /\ UNCHANGED <<killSent, passes, passesDone>>
  /\ UNCHANGED <<waitVars, hostVars, status, out, markerOnTime, clientRc>>

\* next process of the loop: poll(), and terminate() if it still runs
CleanupLoop(ctx) ==
  /\ At(ctx, "cl_loop")
  /\ IF ci > Len(processes)
       THEN /\ Goto(ctx, "cl_ports")
            /\ UNCHANGED <<ci, termSent, signalled>>
       ELSE LET p == processes[ci] IN
            IF StillRunning(status[p])
              THEN /\ termSent' = termSent \cup {p}
                   /\ signalled' = signalled \cup {p}
                   /\ Goto(ctx, "cl_wait1")
                   /\ UNCHANGED ci
              ELSE /\ ci' = ci + 1
                   /\ Goto(ctx, "cl_loop")
                   /\ UNCHANGED <<termSent, signalled>>
  /\ waits' = 0
  /\ UNCHANGED <<exitCode, processes, retval, sigCount>>
  /\ UNCHANGED <<killSent, passes, passesDone>>
  /\ UNCHANGED <<waitVars, hostVars, status, out, markerOnTime, clientRc>>

\* (variant: kill() whether or not wait(timeout=3) returned)
CleanupWait1_AlwaysKills(ctx) ==
  /\ At(ctx, "cl_wait1")
  /\ LET p == processes[ci] IN
       /\ waits' = waits + 1
       /\ killSent' = killSent \cup {p}
       /\ Goto(ctx, "cl_wait2")
       /\ UNCHANGED ci
  /\ UNCHANGED <<exitCode, processes, retval, sigCount>>
  /\ UNCHANGED <<termSent, passes, passesDone>>
  /\ UNCHANGED <<waitVars, childVars, hostVars>>

\* process.wait(timeout=3): it returns, or TimeoutExpired and process.kill()
CleanupWait1(ctx) ==
  /\ At(ctx, "cl_wait1")
  /\ LET p == processes[ci] IN
       /\ waits' = waits + 1
       /\ IF status[p] = "dead"
            THEN /\ ci' = ci + 1
                 /\ Goto(ctx, "cl_loop")
                 /\ UNCHANGED killSent
            ELSE /\ killSent' = killSent \cup {p}
                 /\ Goto(ctx, "cl_wait2")
                 /\ UNCHANGED ci
  /\ UNCHANGED <<exitCode, processes, retval, sigCount>>
  /\ UNCHANGED <<termSent, passes, passesDone>>
  /\ UNCHANGED <<waitVars, childVars, hostVars>>

\* (variant: wait again for as long as the process lives)
CleanupWait2_Retry(ctx) ==
  /\ At(ctx, "cl_wait2")
  /\ waits' = IF waits < 3 THEN waits + 1 ELSE waits
  /\ IF status[processes[ci]] = "dead"
       THEN ci' = ci + 1 /\ Goto(ctx, "cl_loop")
       ELSE ci' = ci /\ Goto(ctx, "cl_wait2")
  /\ UNCHANGED <<exitCode, processes, retval, sigCount>>
  /\ UNCHANGED <<termSent, killSent, passes, passesDone>>
  /\ UNCHANGED <<waitVars, childVars, hostVars>>

\* process.wait(timeout=2): it returns, or TimeoutExpired and pass
CleanupWait2(ctx) ==
  /\ At(ctx, "cl_wait2")
  /\ waits' = waits + 1
  /\ ci' = ci + 1
  /\ Goto(ctx, "cl_loop")
  /\ UNCHANGED <<exitCode, processes, retval, sigCount>>
  /\ UNCHANGED <<termSent, killSent, passes, passesDone>>
  /\ UNCHANGED <<waitVars, childVars, hostVars>>

\* self.cleanup_ports(), line 146
CleanupPorts(ctx) ==
  /\ At(ctx, "cl_ports")
  /\ Goto(ctx, "cl_pkill")
  /\ cleanup_ports
  /\ UNCHANGED <<exitCode, ci, processes, retval, sigCount>>
  /\ UNCHANGED <<waitVars, sigVars, out, markerOnTime, probeVars>>

\* pkill -f rpc_server inside try/except (lines 149-152): SIGTERM to the
\* servers whose command line matches; then print("Cleanup completed")
CleanupPkill(ctx) ==
  /\ At(ctx, "cl_pkill")
  /\ Goto(ctx, "cl_end")
  /\ \E K \in SUBSET (AliveRoles \cap Servers) : signalled' = signalled \cup K
  /\ passesDone' = passesDone + 1
  /\ UNCHANGED <<exitCode, ci, processes, retval, sigCount>>
  /\ UNCHANGED <<termSent, killSent, waits, passes>>
  /\ UNCHANGED <<waitVars, hostVars, status, out, markerOnTime, clientRc>>

\* (variant: after the cleanup of a failed run, run() starts over)
FinallyEnd_Retries ==
  /\ Main("cl_end")
  /\ IF retval = "SystemExit"
       THEN Exit(HandlerExitCode)
       ELSE /\ pc' = IF retval = "False" THEN "s_popen" ELSE "m_exit"
            /\ UNCHANGED <<hpc, exitCode>>
  /\ UNCHANGED <<ci, processes, retval, sigCount>>
  /\ UNCHANGED <<waitVars, sigVars, childVars, hostVars>>

\* the finally clause of run() is over (line 328): run() returns its value,
\* or the SystemExit that entered the clause goes on to end the process
FinallyEnd ==
  /\ Main("cl_end")
  /\ IF retval = "SystemExit"
       THEN Exit(HandlerExitCode)
       ELSE pc' = "m_exit" /\ UNCHANGED <<hpc, exitCode>>
  /\ UNCHANGED <<ci, processes, retval, sigCount>>
  /\ UNCHANGED <<waitVars, sigVars, childVars, hostVars>>

\* ---- signal_handler: lines 156-160 --------------------------------------
\* SIGINT or SIGTERM is delivered once the handlers are installed (lines
\* 285-286); the handler starts with self.cleanup().  A handler that was
\* already running is suspended and never resumes.  Neither does the
\* main program where it was interrupted: its position is reduced to
\* Interrupted(pc), and the locals of wait_for_server_ready and the pipe it
\* read are dropped.
HandlersInstalled == pc \notin {"m_justfile", "m_just", "run_install"}

\* What is kept of the position l of the interrupted main program: whether
\* it is inside the try block of run(), whose finally clause SystemExit
\* will pass through, or outside of it.
Interrupted(l) ==
  IF l \in TryBody \cup {"in_try"} THEN "in_try" ELSE "outside_try"

Signal ==
  /\ Running
  /\ HandlersInstalled
  /\ sigCount < MaxSignals
  /\ sigCount' = sigCount + 1
  /\ hpc' = "cl_begin"
  /\ pc' = Interrupted(pc)
  /\ elapsed' = 0
  /\ rd' = [r \in Servers |-> 0]
  /\ out' = [r \in Servers |-> <<>>]
  /\ UNCHANGED <<exitCode, ci, processes, retval>>
  /\ UNCHANGED <<cur, waitResult, startOk, sigVars, hostVars>>
  /\ UNCHANGED <<status, markerOnTime, clientRc, signalled>>

\* sys.exit(0), line 160: SystemExit unwinds every handler frame and the
\* main program.  Inside the try block of run() no except clause matches it
\* and the finally clause runs self.cleanup(); anywhere else nothing
\* intercepts it and the process exits with its code.
HandlerExit ==
  /\ At("handler", "cl_end")
  /\ IF pc = "in_try"
       THEN /\ pc' = "cl_begin"
            /\ hpc' = "none"
            /\ retval' = "SystemExit"
            /\ UNCHANGED exitCode
       ELSE /\ Exit(HandlerExitCode)
            /\ UNCHANGED retval
  /\ UNCHANGED <<ci, processes, sigCount>>
  /\ UNCHANGED <<waitVars, sigVars, childVars, hostVars>>

\* ---- the child processes ------------------------------------------------
\* the supervisor is still inside r's readiness window
InWindow(r) ==
  /\ cur = r
  /\ \/ pc = "s_append"
     \/ pc \in WaitLocs /\ LoopContinues(elapsed, Timeout(r))

\* a dependency writes a line to its stdout.  Only what the supervisor can
\* still read is modelled: lines written while start_serverN runs, up to and
\* including the first marker line.
ChildPrint(r) ==
  /\ Running
  /\ hpc = "none"
  /\ cur = r
  /\ pc \in {"s_append"} \cup WaitLocs
  /\ status[r] = "alive"
  /\ Len(out[r]) < MaxLines
  /\ \A i \in 1..Len(out[r]) : out[r][i] # "marker"
  /\ \E l \in Lines :
       /\ out' = [out EXCEPT ![r] = Append(@, l)]
       /\ markerOnTime' = [markerOnTime EXCEPT
                             ![r] = @ \/ (l = "marker" /\ InWindow(r))]
  /\ UNCHANGED <<pc, hpc, exitCode, ci, processes, retval, sigCount>>
  /\ UNCHANGED <<waitVars, sigVars, hostVars, status, clientRc, signalled>>

\* a child exits: by itself, or because of a signal it was sent
ChildExit(r) ==
  /\ Running
  /\ status[r] = "alive"
  /\ status' = [status EXCEPT ![r] = "dead"]
  /\ IF r = "Client" THEN clientRc' \in ClientRcs ELSE UNCHANGED clientRc
  /\ UNCHANGED <<pc, hpc, exitCode, ci, processes, retval, sigCount>>
  /\ UNCHANGED <<waitVars, sigVars, hostVars, out, markerOnTime, signalled>>

\* ---- specification ------------------------------------------------------
\* the steps of the supervisor itself
Prog ==
  \/ MainCheckJustfile \/ MainCheckJust \/ MainExit
  \/ RunInstallHandlers \/ PreCleanupPorts \/ PreCheck1 \/ PrePkill
  \/ PreCheck2
  \/ StartPopen \/ StartAppend \/ WaitTop \/ WaitRead \/ WaitSleep
  \/ ClientPopen \/ ClientWait
  \/ \E ctx \in Ctxs : CleanupBegin(ctx)
  \/ \E ctx \in Ctxs : CleanupLoop(ctx)
  \/ \E ctx \in Ctxs : CleanupWait1(ctx)
  \/ \E ctx \in Ctxs : CleanupWait2(ctx)
  \/ \E ctx \in Ctxs : CleanupPorts(ctx)
  \/ \E ctx \in Ctxs : CleanupPkill(ctx)
  \/ FinallyEnd \/ HandlerExit

Next ==
  \/ Prog
  \/ Signal
  \/ Tick
  \/ \E r \in Servers : ChildPrint(r)
  \/ \E r \in Roles : ChildExit(r)

Spec == Init /\ [][Next]_vars

\* every step of the supervisor that can be taken is eventually taken
FairSpec == Spec /\ WF_vars(Prog)

TypeOK ==
  /\ pc \in {"m_justfile", "m_just", "run_install", "m_exit", "exited",
            "in_try", "outside_try"}
            \cup PreLocs \cup TryBody \cup CleanupLocs
  /\ hpc \in {"none"} \cup CleanupLocs
  /\ exitCode \in {NoRc, 0, 1}
  /\ elapsed \in 0..(TimeoutServer1 + 1)
  /\ passes \in 0..(MaxSignals + 1)
  /\ sigCount \in 0..MaxSignals

\* ---- properties ---------------------------------------------------------
Launched(r) == status[r] # "none"
Exited == pc = "exited"
\* position of the code that is executing
ActiveLoc == IF hpc # "none" THEN hpc ELSE pc
\* the for loop of the running cleanup pass is over
LoopOver == ActiveLoc \in {"cl_ports", "cl_pkill", "cl_end"}
StartFailed(r) == waitResult[r] \in {"TimedOut", "ProcessExited"}

\* C1: Server1 is launched only after Server2 was reported Ready, the client
\* only after both were reported Ready, and after a failed start of a
\* dependency no later stage is launched.
C1_LaunchOrder ==
  /\ Launched("Server1") => waitResult["Server2"] = "Ready"
  /\ Launched("Client") => /\ waitResult["Server2"] = "Ready"
                           /\ waitResult["Server1"] = "Ready"
  /\ startOk["Server2"] = "failed" => ~Launched("Server1") /\ ~Launched("Client")
  /\ startOk["Server1"] = "failed" => ~Launched("Client")

C1_Witness ==
  /\ Launched("Client")
  /\ startOk["Server2"] = "ok"
  /\ startOk["Server1"] = "ok"

\* C2 (as claimed): once a signal was delivered, the process exits only
\* after a teardown, and with exit code 1, never 0.
C2_SignalExitsNonzero ==
  (Exited /\ sigCount > 0) => (passes >= 1 /\ exitCode = 1)

\* C3 (as claimed, already for a run with a single signal): at most one
\* teardown pass is ever started in a run.
C3_TeardownOnce == sigCount <= 1 => passes <= 1

\* C4 (as claimed): when the supervisor exits, every child it launched has
\* terminated or was sent a termination signal by teardown.
C4_NoSurvivor ==
  Exited => \A r \in Roles : status[r] = "alive" => r \in signalled

\* C5: without a signal, the exit code is 0 exactly when both dependencies
\* were Ready and the client exited 0, and 1 in every other case.
C5_ExitCode ==
  (Exited /\ sigCount = 0) =>
    exitCode = IF /\ waitResult["Server2"] = "Ready"
                  /\ waitResult["Server1"] = "Ready"
                  /\ clientRc = 0
               THEN 0 ELSE 1

C5_Witness ==
  /\ Exited
  /\ sigCount = 0
  /\ exitCode = 0
  /\ clientRc = 0

\* C6: a dependency whose readiness wait ended TimedOut or ProcessExited made
\* its start report failure and is still tracked; once the loop of a teardown
\* pass is over it is dead or was sent SIGTERM by that pass, and one that had
\* exited before the wait ended is passed over without any signal.
C6_FailedStartReaped ==
  \A r \in Servers :
    StartFailed(r) =>
      /\ startOk[r] = "failed"
      /\ r \in Tracked
      /\ LoopOver => (status[r] = "dead" \/ r \in termSent)
      /\ waitResult[r] = "ProcessExited" => r \notin termSent \cup killSent

C6_Witness ==
  /\ waitResult["Server1"] = "TimedOut"
  /\ LoopOver
  /\ status["Server1"] = "alive"
  /\ "Server1" \in termSent

\* C7 (as claimed, for a dependency that is still running): one that printed
\* its marker inside its window has its start end with Ready, however many
\* other lines it printed first.
C7_MarkerMeansReady ==
  \A r \in Servers :
    (markerOnTime[r] /\ waitResult[r] # "none" /\ status[r] = "alive")
      => waitResult[r] = "Ready"

\* C8 (as claimed): the readiness wait never sits inside a read once its
\* window has run out; it has returned TimedOut by then.
C8_WaitBounded ==
  (hpc = "none" /\ pc = "w_read") => LoopContinues(elapsed, Timeout(cur))

\* C9: once a cleanup call has run to its end, no later step sends SIGTERM,
\* SIGKILL or a sweep kill to a child that has terminated.
C9_Idempotent ==
  [][\A r \in Roles :
       (passesDone >= 1 /\ status[r] = "dead") =>
         /\ r \in termSent' => r \in termSent
         /\ r \in killSent' => r \in killSent
         /\ r \in signalled' => r \in signalled]_vars

C9_Witness ==
  /\ passesDone >= 2
  /\ \E r \in Tracked : status[r] = "dead" /\ r \notin termSent

\* C10: no tracked process is waited on more than twice in one teardown pass,
\* and once a signal was delivered the supervisor eventually exits.
C10_NoHang ==
  /\ [](waits <= 2)
  /\ (sigCount > 0) ~> Exited

C10_Witness ==
  /\ Exited
  /\ sigCount > 0
  /\ killSent # {}

\* C12: the preflight is two tiers and no more.  Each of its steps is
\* entered from its predecessor only: the pattern kill only from a first
\* check that found a port held, the second reclaim only from the pattern
\* kill, the re-check only from the second reclaim; the re-check leads to the
\* start of Server2 or to run() returning False, never back.  During the
\* preflight and after its failure no child has been launched.
C12_TwoTierPreflight ==
  /\ [](pc \in PreLocs => \A r \in Roles : ~Launched(r))
  /\ []((pc = "m_exit" /\ passes = 0) =>
          (retval = "False" /\ \A r \in Roles : ~Launched(r)))
  /\ [][(hpc = "none" /\ hpc' = "none" /\ pc' # pc) =>
          /\ pc' = "pre_cleanup1" => pc = "run_install"
          /\ pc' = "pre_check1" => pc = "pre_cleanup1"
          /\ pc' = "pre_pkill" => (pc = "pre_check1" /\ foreign)
          /\ pc' = "pre_cleanup2" => pc = "pre_pkill"
          /\ pc' = "pre_check2" => pc = "pre_cleanup2"
          /\ pc = "pre_check2" =>
               (pc' \in {"s_popen", "m_exit"} /\ (pc' = "m_exit" => foreign))]_vars

C12_Witness ==
  /\ pc = "m_exit"
  /\ passes = 0
  /\ retval = "False"
  /\ foreign

\* C14: when the supervisor has exited after a signal, every dependency that
\* was launched but never added to self.processes is dead or was sent a
\* signal by the teardown.
C14_InFlightChildTerminated ==
  (Exited /\ sigCount > 0) =>
    \A r \in Servers :
      (Launched(r) /\ r \notin Tracked) => (status[r] = "dead" \/ r \in signalled)

\* C15: in one cleanup pass kill() goes only to a process that the same pass
\* sent terminate() and that still ran when wait(timeout=3) gave up; after
\* the second wait the loop moves to the next process whether or not the
\* process has died, and the pass reaches cleanup_ports only when the loop
\* has been over every tracked process.
C15_Escalation ==
  /\ [](killSent \subseteq termSent)
  /\ [][\A r \in Roles :
          (r \in killSent' /\ r \notin killSent) =>
            (r \in termSent /\ status[r] = "alive" /\ ActiveLoc = "cl_wait1")]_vars
  /\ [][(ActiveLoc = "cl_wait2" /\ sigCount' = sigCount
           /\ <<pc, hpc, ci>>' # <<pc, hpc, ci>>) =>
          (ActiveLoc' = "cl_loop" /\ ci' = ci + 1)]_vars
  /\ [](LoopOver => ci > Len(processes))

C15_Witness ==
  /\ ActiveLoc = "cl_end"
  /\ \E r \in killSent : status[r] = "alive"
  /\ \E r \in Tracked : r \notin killSent

\* the finished loop of the running pass saw process r terminated: poll()
\* returned a code (no terminate() was sent) or wait(timeout=3) returned
ObservedTerminated(r) ==
  /\ LoopOver
  /\ r \in Tracked
  /\ r \notin killSent

\* C16 as stated: once a cleanup pass is over, no process that it observed
\* as terminated is in self.processes.
C16_ObservedDeadRemoved ==
  ActiveLoc = "cl_end" => \A r \in Roles : ~ObservedTerminated(r)

\* C16, amended: self.processes only ever grows; no step, and so no cleanup
\* pass, takes a process off it.
C16_TrackedKept ==
  [][/\ Len(processes') >= Len(processes)
     /\ SubSeq(processes', 1, Len(processes)) = processes]_vars

C16_Witness ==
  /\ ActiveLoc = "cl_end"
  /\ passesDone >= 1
  /\ \E r \in Roles : ObservedTerminated(r) /\ status[r] = "dead"

\* C17 as stated: at most one process per role is tracked, and registering
\* a role that is tracked already would leave self.processes as it is.
C17_SecondRegistrationRefused ==
  /\ \A i, j \in 1..Len(processes) : processes[i] = processes[j] => i = j
  /\ \A r \in Tracked : Register(processes, r) = processes

\* C17, amended: at most one process per role is tracked in every reachable
\* state (run() starts each role once; the append itself is unconditional).
C17_OnePerRole ==
  \A i, j \in 1..Len(processes) : processes[i] = processes[j] => i = j

C17_Witness ==
  /\ Len(processes) = 2
  /\ processes[1] # processes[2]

\* C19: once a cleanup pass has begun or a handler runs, no step launches a
\* child: a role that has no process keeps having none.
C19_NoLaunchAfterTeardown ==
  [][(passes >= 1 \/ hpc # "none") =>
       \A r \in Roles : status[r] = "none" => status'[r] = "none"]_vars

C19_Witness ==
  /\ Exited
  /\ passes >= 2
  /\ Launched("Server2")
  /\ ~Launched("Server1")

\* ---- properties of the probes (PortSpec) ---------------------------------
\* the lsof query run now would list an owner of the port
OwnerListed(port) ==
  tool["lsof"] = "ok" /\ \E h \in hostProcs : port \in ListensOn(h)
ProbeLocs == {"lsof", "netstat", "pgrep_rpc", "pgrep_cargo"}
\* the discovery command the probe at position l runs
ProbeTool(l) == IF l \in {"pgrep_rpc", "pgrep_cargo"} THEN "pgrep" ELSE l

\* C11: whatever combination of lsof, netstat, pgrep and kill is missing or
\* failing, no exception leaves cleanup_ports, and a probe whose discovery
\* command or whose kill does not work changes nothing on the host and does
\* not end the program.
C11_ReclaimNeverRaises ==
  /\ [](raisedIn # "cleanup_ports")
  /\ [][(/\ InPorts
         /\ fpc \in ProbeLocs
         /\ (tool[ProbeTool(fpc)] # "ok" \/ tool["kill"] # "ok"))
        => (hostProcs' = hostProcs /\ pc' # "exited")]_vars

C11_Witness ==
  /\ pc = "pre_check1"
  /\ tool["lsof"] = "ok"
  /\ tool["kill"] = "missing"
  /\ tool["netstat"] = "missing"
  /\ tool["pgrep"] = "fails"
  /\ hostProcs = HostProcs

\* C13: when cleanup_ports has returned on a host whose lsof is missing or
\* failing, every port whose lsof probe was tried has had its netstat probe
\* tried as well; and on any host both pattern sweeps have been tried.
C13_ProbesIsolated ==
  InCheck =>
    /\ tool["lsof"] # "ok" =>
         \A p \in PortSet : "lsof" \in probed[p] => "netstat" \in probed[p]
    /\ swept = {Patterns[1], Patterns[2]}

\* C18: check_ports_free returns False only with a port whose owner the lsof
\* query lists and True only when the query lists an owner for no port, and
\* while it runs no process is signalled and the tracked list, the children
\* and the host stay as they are.
C18_CheckReadOnly ==
  /\ [](pc = "pre_pkill" => \E p \in PortSet : OwnerListed(p))
  /\ []((pc = "m_exit" /\ raisedIn = "none") =>
          \E p \in PortSet : OwnerListed(p))
  /\ [](pc = "s_popen" => \A p \in PortSet : ~OwnerListed(p))
  /\ [][InCheck => /\ hostProcs' = hostProcs
                   /\ killedAny' = killedAny
                   /\ processes' = processes
                   /\ status' = status
                   /\ signalled' = signalled]_vars

C18_Witness ==
  /\ pc = "pre_pkill"
  /\ ~OwnerListed(Ports[1])
  /\ OwnerListed(Ports[2])

\* C20: on a host whose lsof query does not work, check_ports_free returns
\* True whatever holds the ports: the preflight never escalates, never
\* returns False and never stops, it goes from the first check to the start
\* of Server2.
C20_FailedQueryMeansFree ==
  tool["lsof"] # "ok" => pc \in {"pre_cleanup1", "pre_check1", "s_popen"}

C20_Witness ==
  /\ pc = "s_popen"
  /\ tool["lsof"] # "ok"
  /\ PortHeld(hostProcs)
====
